---- MODULE Spec2Model ----
(***************************************************************************)
(* Model of the futures overnight-session dashboards:                      *)
(*   src/app.py                          (CSV pipeline, three instruments) *)
(*   src/overnight_futures_chart_app.py  (spreadsheet pipeline)            *)
(*                                                                         *)
(* Text is modelled as a sequence of one-character strings, so that        *)
(* strip/replace/lower/contains and the regular expressions are computed   *)
(* character by character as the code computes them.  Prices are kept as   *)
(* exact integers in units of 1/PriceScale, timestamps in seconds.         *)
(***************************************************************************)
EXTENDS Integers, Sequences, FiniteSets, TLC

VARIABLES pc, x, price, raw, df_proc, avg_proc, files, chartRaises, tabs,
          sheet, melt_df, Avg_df, non_Avg_df

vars == <<pc, x, price, raw, df_proc, avg_proc, files, chartRaises, tabs,
          sheet, melt_df, Avg_df, non_Avg_df>>

\* Value of a variable that the running script does not use.
Unused == <<>>

(***************************************************************************)
(* Bounds of the model                                                     *)
(***************************************************************************)
\* longest price string handed to convert_price
MaxLen == 5

(***************************************************************************)
(* Text helpers                                                            *)
(***************************************************************************)
\* characters outside ASCII, named: U+2013 EN DASH and U+00BC (one quarter)
EnDash == "u2013"
Quarter == "u00BC"

Digits == {"0", "1", "2", "3", "4", "5", "6", "7", "8", "9"}

DigitVal(c) ==
  CASE c = "0" -> 0 [] c = "1" -> 1 [] c = "2" -> 2 [] c = "3" -> 3
    [] c = "4" -> 4 [] c = "5" -> 5 [] c = "6" -> 6 [] c = "7" -> 7
    [] c = "8" -> 8 [] c = "9" -> 9

\* int("...") of a non-empty run of decimal digits
RECURSIVE ToInt(_)
ToInt(s) ==
  IF s = <<>> THEN 0
  ELSE 10 * ToInt(SubSeq(s, 1, Len(s) - 1)) + DigitVal(s[Len(s)])

\* str.strip(): whitespace removed at both ends
RECURSIVE LStrip(_)
LStrip(s) == IF s # <<>> /\ Head(s) = " " THEN LStrip(Tail(s)) ELSE s

RECURSIVE RStrip(_)
RStrip(s) ==
  IF s # <<>> /\ s[Len(s)] = " " THEN RStrip(SubSeq(s, 1, Len(s) - 1)) ELSE s

Strip(s) == RStrip(LStrip(s))

\* str.replace(a, b) for single characters a, b
ReplaceChar(s, a, b) == [k \in 1..Len(s) |-> IF s[k] = a THEN b ELSE s[k]]

Upper == <<"A", "B", "C", "D", "E", "F", "G", "H", "I", "J", "K", "L", "M",
           "N", "O", "P", "Q", "R", "S", "T", "U", "V", "W", "X", "Y", "Z">>
Lower == <<"a", "b", "c", "d", "e", "f", "g", "h", "i", "j", "k", "l", "m",
           "n", "o", "p", "q", "r", "s", "t", "u", "v", "w", "x", "y", "z">>

\* str.lower()
LowerChar(c) ==
  IF \E k \in 1..Len(Upper) : Upper[k] = c
  THEN Lower[CHOOSE k \in 1..Len(Upper) : Upper[k] = c]
  ELSE c

ToLower(s) == [k \in 1..Len(s) |-> LowerChar(s[k])]

\* pat in s
Contains(s, pat) ==
  \E k \in 1..(Len(s) - Len(pat) + 1) : SubSeq(s, k, k + Len(pat) - 1) = pat

\* str.replace(pat, "") for a text pat: every occurrence removed, left to right
RECURSIVE RemoveAll(_, _)
RemoveAll(s, pat) ==
  IF Len(s) < Len(pat) THEN s
  ELSE IF SubSeq(s, 1, Len(pat)) = pat
       THEN RemoveAll(SubSeq(s, Len(pat) + 1, Len(s)), pat)
       ELSE <<Head(s)>> \o RemoveAll(Tail(s), pat)

\* length of the longest prefix of s made of digits: what \d+ consumes
RECURSIVE DigitRun(_)
DigitRun(s) ==
  IF s # <<>> /\ Head(s) \in Digits THEN 1 + DigitRun(Tail(s)) ELSE 0

(***************************************************************************)
(* convert_price                                                           *)
(***************************************************************************)
\* price = whole + (frac / 32.0) / 100.0, kept as price * PriceScale
PriceScale == 3200

None == [ok |-> FALSE, v |-> 0]
Num(n) == [ok |-> TRUE, v |-> n]

\* x.strip().replace(EnDash, "-").replace("+", "4")
Cleaned(s) == ReplaceChar(ReplaceChar(Strip(s), EnDash, "-"), "+", "4")

\* re.match(r"(\d+)-(\d+)", x): the two groups, or no match
Match(s) ==
  LET n1   == DigitRun(s)
      rest == SubSeq(s, n1 + 2, Len(s))
      n2   == DigitRun(rest)
  IN  IF n1 >= 1 /\ Len(s) >= n1 + 1 /\ s[n1 + 1] = "-" /\ n2 >= 1
      THEN [found |-> TRUE, g1 |-> SubSeq(s, 1, n1), g2 |-> SubSeq(rest, 1, n2)]
      ELSE [found |-> FALSE, g1 |-> <<>>, g2 |-> <<>>]

\* float(x) of a text over digits, "-", blanks and other glyphs: an optional
\* sign and a run of digits, blanks around it ignored; anything else raises.
ToFloat(s) ==
  LET t    == Strip(s)
      body == IF t # <<>> /\ Head(t) = "-" THEN Tail(t) ELSE t
      sign == IF t # <<>> /\ Head(t) = "-" THEN -1 ELSE 1
  IN  IF body # <<>> /\ DigitRun(body) = Len(body)
      THEN Num(sign * ToInt(body) * PriceScale)
      ELSE None

\* the same with the division by 100 forgotten: whole + frac / 32.0
FractionalPrice_NoCent(whole, frac) == whole * PriceScale + frac * 100

\* whole + (frac / 32.0) / 100.0
FractionalPrice(whole, frac) == whole * PriceScale + frac

convert_price(s) ==
  LET c == Cleaned(s)
      m == Match(c)
  IN  IF m.found
      THEN Num(FractionalPrice(ToInt(m.g1), ToInt(m.g2)))
      ELSE ToFloat(c)

(***************************************************************************)
(* Specification of the price parser: one text in, one value out           *)
(***************************************************************************)
PriceChars == {"0", "1", "4", "-", EnDash, "+", Quarter, " "}

Texts(n) == UNION {[1..k -> PriceChars] : k \in 0..n}

InitPrice ==
  /\ pc = "price"
  /\ x \in Texts(MaxLen)
  /\ price = None
  /\ raw = Unused /\ df_proc = Unused /\ avg_proc = Unused
  /\ files = Unused /\ chartRaises = Unused /\ tabs = Unused
  /\ sheet = Unused /\ melt_df = Unused /\ Avg_df = Unused
  /\ non_Avg_df = Unused

ConvertPrice ==
  /\ pc = "price"
  /\ price' = convert_price(x)
  /\ pc' = "priced"
  /\ UNCHANGED <<x, raw, df_proc, avg_proc, files, chartRaises, tabs,
                 sheet, melt_df, Avg_df, non_Avg_df>>

NextPrice == ConvertPrice

SpecPrice == InitPrice /\ [][NextPrice]_vars

(***************************************************************************)
(* process_contract (src/app.py)                                           *)
(*                                                                         *)
(* A loaded table is [columns, rows]: columns the column names, rows a     *)
(* sequence of [i, cells] with i the row's index label and cells the row's *)
(* cells by column.  The first column holds date cells [valid, day, h, m,  *)
(* s], which to_datetime turns into seconds or NaT; the second holds the   *)
(* price text.                                                             *)
(***************************************************************************)
\* hours of the session window
OpenHour == 18
CloseHour == 16

DaySeconds == 24 * 60 * 60

NaT == [ok |-> FALSE, v |-> 0]

\* pd.to_datetime(..., errors="coerce")
to_datetime(cell) ==
  IF cell.valid
  THEN [ok |-> TRUE, v |-> ((cell.day * 24 + cell.h) * 60 + cell.m) * 60 + cell.s]
  ELSE NaT

\* t.dt.hour and t.dt.date (days since the epoch)
HourOf(t) == (t % DaySeconds) \div (60 * 60)
DateOf(t) == t \div DaySeconds

\* the text searched for in the lower-cased column names
DateNeedle == <<"d", "a", "t", "e">>
PriceNeedle_Last == <<"l", "a", "s", "t">>
PriceNeedle == <<"l", "s", "t">>

\* next((c for c in df.columns if needle in c.lower()), None): 0 for None
FindColumn(columns, needle) ==
  LET hits == {k \in 1..Len(columns) : Contains(ToLower(columns[k]), needle)}
  IN  IF hits = {} THEN 0 ELSE CHOOSE k \in hits : \A j \in hits : k <= j

\* the orders sort_values("t") may leave the rows in: ascending in t, rows of
\* equal t in any order (the default quicksort is not stable)
SortOrders_Unsorted(rows) == {rows}

RECURSIVE SortOrders(_)
SortOrders(rows) ==
  IF rows = <<>> THEN {<<>>}
  ELSE LET least == {k \in 1..Len(rows) : \A j \in 1..Len(rows) : rows[k].t <= rows[j].t}
           Without(k) == SubSeq(rows, 1, k - 1) \o SubSeq(rows, k + 1, Len(rows))
       IN  UNION {{<<rows[k]>> \o rest : rest \in SortOrders(Without(k))} : k \in least}

\* df["t"] = pd.to_datetime(df[date_col], ...); df.dropna(subset=["t"])
WithTime(rows, date_col) ==
  LET parsed == [k \in 1..Len(rows) |->
                   [i |-> rows[k].i, cells |-> rows[k].cells,
                    tt |-> to_datetime(rows[k].cells[date_col])]]
      Ok(r)  == r.tt.ok
      kept   == SelectSeq(parsed, Ok)
  IN  [k \in 1..Len(kept) |->
         [i |-> kept[k].i, cells |-> kept[k].cells, t |-> kept[k].tt.v]]

\* df["Price"] = df[price_col].apply(convert_price); df.dropna(subset=["Price"])
WithPrice(rows, price_col) ==
  LET parsed == [k \in 1..Len(rows) |->
                   [i |-> rows[k].i, t |-> rows[k].t,
                    p |-> convert_price(rows[k].cells[price_col])]]
      Ok(r)  == r.p.ok
      kept   == SelectSeq(parsed, Ok)
  IN  [k \in 1..Len(kept) |-> [i |-> kept[k].i, t |-> kept[k].t, Price |-> kept[k].p.v]]

\* SessionDate = t.dt.date, and the previous day before 6 PM
SessionDateOf_SameDay(t) == DateOf(t)

SessionDateOf(t) == IF HourOf(t) < OpenHour THEN DateOf(t) - 1 ELSE DateOf(t)

\* (t.dt.hour >= 18) | (t.dt.hour < 16)
InWindow_All(t) == TRUE

InWindow(t) == HourOf(t) >= OpenHour \/ HourOf(t) < CloseHour

\* (t - session_start).dt.total_seconds() / 60, plus a day when negative;
\* kept in seconds, that is in units of 1/60 minute
MinutesSinceOpenOf(t, sessionDate) ==
  LET session_start == sessionDate * DaySeconds + OpenHour * 60 * 60
      d == t - session_start
  IN  IF d < 0 THEN d + DaySeconds ELSE d

Segment(rows) ==
  LET dated == [k \in 1..Len(rows) |->
                  [i |-> rows[k].i, t |-> rows[k].t, Price |-> rows[k].Price,
                   SessionDate |-> SessionDateOf(rows[k].t)]]
      Keep(r) == InWindow(r.t)
      kept  == SelectSeq(dated, Keep)
  IN  [k \in 1..Len(kept) |->
         [i |-> kept[k].i, t |-> kept[k].t, Price |-> kept[k].Price,
          SessionDate |-> kept[k].SessionDate,
          MinutesSinceOpen |-> MinutesSinceOpenOf(kept[k].t, kept[k].SessionDate)]]

\* normalize_session(g): the price every row of the group is rebased by
SessionBase(g) ==
  LET AtOpen(r) == r.MinutesSinceOpen = 0
      base == SelectSeq(g, AtOpen)
  IN  IF base # <<>> THEN base[1].Price ELSE g[1].Price

\* df.groupby("SessionDate", group_keys=False).apply(normalize_session):
\* every row keeps its place and gains Yield
Normalize(rows) ==
  [k \in 1..Len(rows) |->
     LET SameSession(r) == r.SessionDate = rows[k].SessionDate
         g == SelectSeq(rows, SameSession)
     IN  [i |-> rows[k].i, t |-> rows[k].t, Price |-> rows[k].Price,
          SessionDate |-> rows[k].SessionDate,
          MinutesSinceOpen |-> rows[k].MinutesSinceOpen,
          Yield |-> rows[k].Price - SessionBase(g)]]

\* sum of the Yield of the rows of a set of positions
RECURSIVE SumYield(_, _)
SumYield(rows, ks) ==
  IF ks = {} THEN 0
  ELSE LET k == CHOOSE j \in ks : TRUE
       IN  rows[k].Yield + SumYield(rows, ks \ {k})

\* df.groupby("MinutesSinceOpen", as_index=False)["Yield"].mean()
\*   .sort_values("MinutesSinceOpen"); the mean is kept exact as sum / n
Average(rows) ==
  LET offsets == {rows[k].MinutesSinceOpen : k \in 1..Len(rows)}
      At(m)   == {k \in 1..Len(rows) : rows[k].MinutesSinceOpen = m}
      Sorted  == CHOOSE q \in [1..Cardinality(offsets) -> offsets] :
                   \A a, b \in 1..Cardinality(offsets) : a < b => q[a] < q[b]
  IN  [k \in 1..Cardinality(offsets) |->
         [MinutesSinceOpen |-> Sorted[k],
          sum |-> SumYield(rows, At(Sorted[k])),
          n |-> Cardinality(At(Sorted[k]))]]

Raise == [raised |-> TRUE, df |-> <<>>, avg_df |-> <<>>]

\* the rows with a timestamp, as they reach sort_values("t")
TimedRows(df) ==
  LET date_col == FindColumn(df.columns, DateNeedle)
  IN  IF date_col = 0 THEN <<>> ELSE WithTime(df.rows, date_col)

\* process_contract(df, contract) for one outcome `sorted` of sort_values:
\* the pair (df, avg_df), or an exception.  With no row left the group-by
\* returns a frame without Yield and the average raises KeyError.
process_contract(df, sorted) ==
  LET date_col  == FindColumn(df.columns, DateNeedle)
      price_col == FindColumn(df.columns, PriceNeedle)
  IN  IF date_col = 0 \/ price_col = 0 THEN Raise
      ELSE LET rows == Segment(WithPrice(sorted, price_col))
           IN  IF rows = <<>> THEN Raise
               ELSE [raised |-> FALSE, df |-> Normalize(rows),
                     avg_df |-> Average(Normalize(rows))]


(***************************************************************************)
(* Specification of process_contract: one loaded table in, (df, avg_df)    *)
(* or an exception out                                                     *)
(***************************************************************************)
\* most rows of a loaded table
MaxRows == 3

Date(day, h, m, s) == [valid |-> TRUE, day |-> day, h |-> h, m |-> m, s |-> s]
BadDate == [valid |-> FALSE, day |-> 0, h |-> 0, m |-> 0, s |-> 0]

T100_00 == <<"1", "0", "0", "-", "0", "0">>
T100_04 == <<"1", "0", "0", "-", "0", "4">>
BadText == <<"x">>

ColDate == <<"D", "a", "t", "e">>
ColTime == <<"T", "i", "m", "e">>
ColLst  == <<"L", "s", "t">>
ColLast == <<"L", "a", "s", "t">>

\* days are counted from 2025-09-17
ContractDates ==
  { Date(0, 18, 0, 0), Date(1, 9, 0, 0), Date(1, 15, 59, 59),
    Date(1, 16, 30, 0), Date(1, 18, 0, 0) }

ContractCells ==
  (ContractDates \X {T100_00, T100_04})
    \cup {<<BadDate, T100_00>>, <<Date(0, 18, 0, 0), BadText>>}

ContractHeaders == {<<ColDate, ColLst>>, <<ColTime, ColLst>>}

Table(columns, cells) ==
  [columns |-> columns,
   rows |-> [k \in 1..Len(cells) |-> [i |-> k, cells |-> cells[k]]]]

InitContract ==
  /\ pc = "loaded"
  /\ \E columns \in ContractHeaders, n \in 0..MaxRows :
       \E cells \in [1..n -> ContractCells] : raw = Table(columns, cells)
  /\ df_proc = <<>> /\ avg_proc = <<>>
  /\ x = Unused /\ price = Unused
  /\ files = Unused /\ chartRaises = Unused /\ tabs = Unused
  /\ sheet = Unused /\ melt_df = Unused /\ Avg_df = Unused
  /\ non_Avg_df = Unused

ProcessContract ==
  /\ pc = "loaded"
  /\ \E sorted \in SortOrders(TimedRows(raw)) :
       LET r == process_contract(raw, sorted)
       IN  /\ pc' = IF r.raised THEN "raised" ELSE "returned"
           /\ df_proc' = r.df
           /\ avg_proc' = r.avg_df
  /\ UNCHANGED <<x, price, raw, files, chartRaises, tabs,
                 sheet, melt_df, Avg_df, non_Avg_df>>

NextContract == ProcessContract

SpecContract == InitContract /\ [][NextContract]_vars


(***************************************************************************)
(* Claims about convert_price (SpecPrice)                                  *)
(***************************************************************************)
AllDigits(s) == s # <<>> /\ \A k \in 1..Len(s) : s[k] \in Digits

\* x is W, a hyphen or en-dash at position d, F up to position e, then a rest
IsFraction(s, d, e) ==
  /\ 1 < d /\ d < e /\ e <= Len(s)
  /\ AllDigits(SubSeq(s, 1, d - 1))
  /\ s[d] \in {"-", EnDash}
  /\ AllDigits(SubSeq(s, d + 1, e))
  /\ e < Len(s) => s[e + 1] \notin Digits

WholeOf(s, d) == ToInt(SubSeq(s, 1, d - 1))
FracOf(s, d, e) == ToInt(SubSeq(s, d + 1, e))

\* C7: for every text "W-F" (hyphen or en-dash) with 0 <= F < 32, followed
\* by any characters that hold no "+", convert_price returns W + F/3200:
\* PriceScale * result = PriceScale * W + F.
C7_FractionValue ==
  pc = "priced" =>
    \A d, e \in 1..Len(x) :
      ( /\ IsFraction(x, d, e)
        /\ FracOf(x, d, e) < 32
        /\ \A k \in (e + 1)..Len(x) : x[k] # "+" )
      => price = Num(PriceScale * WholeOf(x, d) + FracOf(x, d, e))

\* the text 1<en-dash>14<quarter> has been converted to 1 + 14/3200
C7_Witness ==
  /\ pc = "priced"
  /\ x = <<"1", EnDash, "1", "4", Quarter>>
  /\ price = Num(PriceScale + 14)

\* C8: for every text "W-F+" (a "+" directly after the digits of F),
\* convert_price returns the value of "W-F" plus 4 thirty-seconds:
\* W + (F + 4)/3200.
C8_PlusAddsFour ==
  pc = "priced" =>
    \A d, e \in 1..Len(x) :
      (IsFraction(x, d, e) /\ e + 1 = Len(x) /\ x[e + 1] = "+")
      => price = Num(PriceScale * WholeOf(x, d) + FracOf(x, d, e) + 4)

(***************************************************************************)
(* Claims about process_contract (SpecContract)                            *)
(***************************************************************************)
Rows(df) == {df[k] : k \in 1..Len(df)}

\* C1: in every session with a row at MinutesSinceOpen = 0, every row at
\* MinutesSinceOpen = 0 has Yield 0, whatever the input table.
C1_ZeroAtOpen ==
  pc = "returned" =>
    \A r \in Rows(df_proc) : r.MinutesSinceOpen = 0 => r.Yield = 0

\* the sessions with a row at offset m, and the rows of session d at m
SessionsAt(df, m) == {r.SessionDate : r \in {q \in Rows(df) : q.MinutesSinceOpen = m}}
RowsAt(df, d, m) == {k \in 1..Len(df) : df[k].SessionDate = d /\ df[k].MinutesSinceOpen = m}

\* product over the sessions ds of the number of rows each has at offset m
RECURSIVE RowCountProduct(_, _, _)
RowCountProduct(df, ds, m) ==
  IF ds = {} THEN 1
  ELSE LET d == CHOOSE e \in ds : TRUE
       IN  Cardinality(RowsAt(df, d, m)) * RowCountProduct(df, ds \ {d}, m)

\* sum over the sessions ds of the session's own mean Yield at offset m,
\* times RowCountProduct(df, all, m) so that it stays an integer
RECURSIVE SessionMeanSum(_, _, _, _)
SessionMeanSum(df, ds, all, m) ==
  IF ds = {} THEN 0
  ELSE LET d == CHOOSE e \in ds : TRUE
       IN  SumYield(df, RowsAt(df, d, m)) * RowCountProduct(df, all \ {d}, m)
             + SessionMeanSum(df, ds \ {d}, all, m)

\* C2: every row of the average table is the unweighted mean, over the
\* sessions with a row at that offset, of the session's Yield at the offset
\* (the mean of its rows there), each session counting once however many
\* rows it has at the offset.
C2_MeanOverSessions ==
  pc = "returned" =>
    \A j \in 1..Len(avg_proc) :
      LET m  == avg_proc[j].MinutesSinceOpen
          ss == SessionsAt(df_proc, m)
      IN  avg_proc[j].sum * Cardinality(ss) * RowCountProduct(df_proc, ss, m)
            = avg_proc[j].n * SessionMeanSum(df_proc, ss, ss, m)

\* C5: every output row has MinutesSinceOpen equal to the time from 18:00 on
\* its SessionDate to its timestamp, and within [0, 1320] minutes.
C5_MinutesSinceOpen ==
  pc = "returned" =>
    \A r \in Rows(df_proc) :
      /\ r.MinutesSinceOpen = r.t - (r.SessionDate * 24 + 18) * 60 * 60
      /\ 0 <= r.MinutesSinceOpen
      /\ r.MinutesSinceOpen <= 1320 * 60

\* a row of 15:59:59 is 1319 minutes 59 seconds after the open of the day before
C5_Witness ==
  /\ pc = "returned"
  /\ \E r \in Rows(df_proc) :
       /\ raw.rows[r.i].cells[1] = Date(1, 15, 59, 59)
       /\ r.SessionDate = 0
       /\ r.MinutesSinceOpen = 1319 * 60 + 59

\* C6: a row with a parseable timestamp and price is in the output exactly
\* when its clock-hour is >= 18 or < 16; an output row before 18:00 has the
\* previous calendar day as SessionDate, one from 18:00 on its own day.
C6_Segmentation ==
  pc = "returned" =>
    /\ \A k \in 1..Len(raw.rows) :
         LET c == raw.rows[k].cells
         IN  (c[1].valid /\ c[2] # BadText) =>
               ((\E r \in Rows(df_proc) : r.i = k) <=> (c[1].h >= 18 \/ c[1].h < 16))
    /\ \A r \in Rows(df_proc) :
         LET c == raw.rows[r.i].cells[1]
         IN  /\ c.h < 18 => r.SessionDate = c.day - 1
             /\ c.h >= 18 => r.SessionDate = c.day

\* a 16:30 row is left out while a 09:00 row is kept in the session of the
\* day before
C6_Witness ==
  /\ pc = "returned"
  /\ \E k \in 1..Len(raw.rows) :
       /\ raw.rows[k].cells[1] = Date(1, 16, 30, 0)
       /\ raw.rows[k].cells[2] # BadText
       /\ \A r \in Rows(df_proc) : r.i # k
  /\ \E r \in Rows(df_proc) :
       raw.rows[r.i].cells[1] = Date(1, 9, 0, 0) /\ r.SessionDate = 0


(***************************************************************************)
(* The page of src/app.py: one tab per instrument, in the order of the     *)
(* dict `contracts`                                                        *)
(***************************************************************************)
contracts == <<"TUZ5", "FVZ5", "TYZ5">>

Instruments == {contracts[k] : k \in 1..Len(contracts)}

\* what a tab shows
EmptyTab == [kind |-> "empty",   df |-> <<>>, avg_df |-> <<>>]
Warning  == [kind |-> "warning", df |-> <<>>, avg_df |-> <<>>]
Error    == [kind |-> "error",   df |-> <<>>, avg_df |-> <<>>]
Chart(df, avg_df) == [kind |-> "chart", df |-> df, avg_df |-> avg_df]

\* a file of the folder: absent, or present and unreadable for read_csv in
\* both encodings, or holding a table
MissingFile    == [exists |-> FALSE, readable |-> FALSE, table |-> Table(<<>>, <<>>)]
UnreadableFile == [exists |-> TRUE,  readable |-> FALSE, table |-> Table(<<>>, <<>>)]
CsvFile(table) == [exists |-> TRUE,  readable |-> TRUE,  table |-> table]

\* the instrument the loop goes on with after `name`
NextTab(name) ==
  LET k == CHOOSE j \in 1..Len(contracts) : contracts[j] = name
  IN  IF k < Len(contracts) THEN contracts[k + 1] ELSE "end"

\* an exception that leaves the loop instead of being caught
AfterTab_Propagate(name, shown) ==
  IF shown.kind = "error" THEN "end" ELSE NextTab(name)

\* `continue` after the warning, the end of the try block and the except
\* clause all go on with the next instrument
AfterTab(name, shown) == NextTab(name)

\* the body of the loop for one file: `raises` tells whether building the
\* title or the chart raises, `sorted` is the outcome of sort_values
TabOutcome(file, raises, sorted) ==
  IF ~file.exists THEN Warning
  ELSE IF ~file.readable THEN Error
  ELSE LET r == process_contract(file.table, sorted)
       IN  IF r.raised THEN Error
           ELSE IF raises THEN Error
           ELSE Chart(r.df, r.avg_df)

\* the orders in which sort_values may hand the file's rows on
FileSortOrders(file) ==
  IF file.exists /\ file.readable THEN SortOrders(TimedRows(file.table)) ELSE {<<>>}

(***************************************************************************)
(* Specification of the page: three files in, three tabs out               *)
(***************************************************************************)
ColDATE == <<"D", "A", "T", "E">>
ColLST  == <<"L", "S", "T">>

\* two sessions, 2025-09-17 and 2025-09-18 (days 0 and 1), each with "100-00"
\* at its 18:00 open and "100-04" at the same later time of the window
ScenarioCells(later) ==
  << <<Date(0, 18, 0, 0), T100_00>>,
     <<Date(IF later.h < OpenHour THEN 1 ELSE 0, later.h, later.m, 0), T100_04>>,
     <<Date(1, 18, 0, 0), T100_00>>,
     <<Date(IF later.h < OpenHour THEN 2 ELSE 1, later.h, later.m, 0), T100_04>> >>

Reversed(s) == [k \in 1..Len(s) |-> s[Len(s) + 1 - k]]

LaterTimes == {[h |-> 18, m |-> 5], [h |-> 9, m |-> 0]}

ScenarioFiles(columns) ==
  {CsvFile(Table(columns, cells)) :
     cells \in UNION {{ScenarioCells(l), Reversed(ScenarioCells(l))} : l \in LaterTimes}}

\* a table whose only row lies between 16:00 and 18:00
NoRowsFile == CsvFile(Table(<<ColDate, ColLst>>, << <<Date(1, 16, 30, 0), T100_04>> >>))

FileChoices ==
  {MissingFile, UnreadableFile, NoRowsFile}
    \cup ScenarioFiles(<<ColDate, ColLast>>) \cup ScenarioFiles(<<ColDate, ColLst>>)
    \cup {CsvFile(Table(<<ColDATE, ColLST>>, ScenarioCells([h |-> 9, m |-> 0])))}

InitApp ==
  /\ pc = contracts[1]
  /\ files \in [Instruments -> FileChoices]
  /\ chartRaises \in [Instruments -> BOOLEAN]
  /\ tabs = [n \in Instruments |-> EmptyTab]
  /\ x = Unused /\ price = Unused
  /\ raw = Unused /\ df_proc = Unused /\ avg_proc = Unused
  /\ sheet = Unused /\ melt_df = Unused /\ Avg_df = Unused
  /\ non_Avg_df = Unused

Tab(name) ==
  /\ pc = name
  /\ \E sorted \in FileSortOrders(files[name]) :
       LET shown == TabOutcome(files[name], chartRaises[name], sorted)
       IN  /\ tabs' = [tabs EXCEPT ![name] = shown]
           /\ pc' = AfterTab(name, shown)
  /\ UNCHANGED <<x, price, raw, df_proc, avg_proc, files, chartRaises,
                 sheet, melt_df, Avg_df, non_Avg_df>>

NextApp == \E name \in Instruments : Tab(name)

SpecApp == InitApp /\ [][NextApp]_vars

(***************************************************************************)
(* Claims about the page (SpecApp)                                         *)
(***************************************************************************)
Position(name) == CHOOSE k \in 1..Len(contracts) + 1 : (contracts \o <<"end">>)[k] = name

\* the loop has been through instrument n
Done(n) == Position(n) < Position(pc)

\* the sessions of a table and the first row of each
Sessions(df) == {r.SessionDate : r \in Rows(df)}
FirstRow(df, d) ==
  df[CHOOSE k \in 1..Len(df) :
       /\ df[k].SessionDate = d
       /\ \A j \in 1..Len(df) : df[j].SessionDate = d => k <= j]

\* two per-session curves that start at Yield 0, and an average of two points
ScenarioChart(shown) ==
  /\ shown.kind = "chart"
  /\ Cardinality(Sessions(shown.df)) = 2
  /\ \A d \in Sessions(shown.df) :
       /\ FirstRow(shown.df, d).MinutesSinceOpen = 0
       /\ FirstRow(shown.df, d).Yield = 0
       /\ \A r \in Rows(shown.df) :
            r.SessionDate = d => FirstRow(shown.df, d).MinutesSinceOpen <= r.MinutesSinceOpen
  /\ Len(shown.avg_df) = 2

\* C3 as stated: the two-session table with the columns Date and Last ends
\* in the chart, with two curves starting at Yield 0 and an average of two
\* points.
C3_ScenarioDateLast ==
  \A n \in Instruments :
    (Done(n) /\ files[n] \in ScenarioFiles(<<ColDate, ColLast>>) /\ ~chartRaises[n])
      => ScenarioChart(tabs[n])

\* C3 amended: the two-session table ends in that chart when its price
\* column is named Lst (or LST), and in the error message when it is named
\* Last.
C3_ScenarioDateLst ==
  \A n \in Instruments :
    (Done(n) /\ ~chartRaises[n]) =>
      /\ files[n] \in ScenarioFiles(<<ColDate, ColLst>>) \cup ScenarioFiles(<<ColDATE, ColLST>>)
           => ScenarioChart(tabs[n])
      /\ files[n] \in ScenarioFiles(<<ColDate, ColLast>>) => tabs[n].kind = "error"

\* the table with the columns Date and Lst, newest row first, has been charted
C3_Witness ==
  /\ pc = "end"
  /\ files["FVZ5"] = CsvFile(Table(<<ColDate, ColLst>>,
                                   Reversed(ScenarioCells([h |-> 9, m |-> 0]))))
  /\ ScenarioChart(tabs["FVZ5"])
  /\ tabs["FVZ5"].avg_df[2].MinutesSinceOpen = 15 * 60 * 60
  /\ tabs["FVZ5"].avg_df[2].sum = 8 /\ tabs["FVZ5"].avg_df[2].n = 2

\* the outcome the claim gives a file: a warning for a missing file, the
\* error message when load_csv, process_contract or the rendering raises,
\* the chart otherwise
Expected(file, raises) ==
  IF file = MissingFile THEN "warning"
  ELSE IF \/ file = UnreadableFile
          \/ file = NoRowsFile
          \/ file \in ScenarioFiles(<<ColDate, ColLast>>)
          \/ raises
       THEN "error"
  ELSE "chart"

\* C4: the instruments are gone through in the order TUZ5, FVZ5, TYZ5; each
\* one gone through shows exactly the outcome of its own file, whatever the
\* outcomes of the others, and the loop ends only after all three.
C4_Isolation ==
  /\ pc \in Instruments \cup {"end"}
  /\ \A n \in Instruments :
       /\ Done(n) => tabs[n].kind = Expected(files[n], chartRaises[n])
       /\ ~Done(n) => tabs[n] = EmptyTab

\* a missing file, then a file that raises, then a chart
C4_Witness ==
  /\ pc = "end"
  /\ files["TUZ5"] = MissingFile /\ tabs["TUZ5"].kind = "warning"
  /\ files["FVZ5"] = UnreadableFile /\ tabs["FVZ5"].kind = "error"
  /\ tabs["TYZ5"].kind = "chart"


(***************************************************************************)
(* The page of src/overnight_futures_chart_app.py                          *)
(*                                                                         *)
(* The loaded sheet df_chart is [timeName, times, columns, values]: the    *)
(* name of its first column, the cells of that column, the labels of the   *)
(* other (numeric) columns and values[c][r], a number or NaN.  A cell of   *)
(* the time column is [clock, h, m, mer]: a text "h:mm", "h:mm AM" or      *)
(* "h:mm PM", or (clock = FALSE) a text of another shape.                  *)
(***************************************************************************)
NaN == [ok |-> FALSE, v |-> 0]

\* float subtraction, NaN when either side is NaN
Sub(a, b) == IF a.ok /\ b.ok THEN Num(a.v - b.v) ELSE NaN

TimeDay == <<"T", "i", "m", "e", "/", "D", "a", "y">>

\* df_chart.melt(id_vars=["Time/Day"], value_vars=numeric_cols,
\*               var_name="Date", value_name="Yield")
Melt(df) ==
  LET nr == Len(df.times)
  IN  [k \in 1..(Len(df.columns) * nr) |->
         LET c == ((k - 1) \div nr) + 1
             r == ((k - 1) % nr) + 1
         IN  [i |-> k, time |-> df.times[r], Date |-> df.columns[c],
              Yield |-> df.values[c][r]]]

\* str.match(r"^\d{1,2}:\d{2}(:\d{2})?\s*(AM|PM|am|pm)?$")
MatchesClock(cell) == cell.clock

\* pd.to_datetime("1970-01-01 " + text, errors="coerce"): seconds, or NaT
ClockTime(cell) ==
  LET h24 == IF cell.mer = "" THEN cell.h
             ELSE IF cell.mer = "AM" THEN (IF cell.h = 12 THEN 0 ELSE cell.h)
             ELSE (IF cell.h = 12 THEN 12 ELSE cell.h + 12)
      ok  == /\ cell.m <= 59
             /\ IF cell.mer = "" THEN cell.h <= 23 ELSE 1 <= cell.h /\ cell.h <= 12
  IN  IF ok THEN [ok |-> TRUE, v |-> (h24 * 60 + cell.m) * 60] ELSE NaT

\* times before 6 PM are moved to the next day
Shifted(t) == IF HourOf(t) < OpenHour THEN t + DaySeconds ELSE t

\* lines 47-60: the rows with a clock time, shifted, inside the window
Windowed(rows) ==
  LET Clock(r) == MatchesClock(r.time)
      clocks   == SelectSeq(rows, Clock)
      parsed   == [k \in 1..Len(clocks) |->
                     [i |-> clocks[k].i, Date |-> clocks[k].Date,
                      Yield |-> clocks[k].Yield, tt |-> ClockTime(clocks[k].time)]]
      Ok(r)    == r.tt.ok
      timed    == SelectSeq(parsed, Ok)
      shifted  == [k \in 1..Len(timed) |->
                     [i |-> timed[k].i, Date |-> timed[k].Date,
                      Yield |-> timed[k].Yield, t |-> Shifted(timed[k].tt.v)]]
      Keep(r)  == InWindow(r.t)
  IN  SelectSeq(shifted, Keep)

\* the shortened label of a column
ShortLabel(d) ==
  Strip(RemoveAll(RemoveAll(RemoveAll(d,
          <<"2", "0", "2", "5", "-">>),
          <<"-", "2", "0", "2", "5">>),
          <<"0", "0", ":", "0", "0", ":", "0", "0">>))

Shortened(rows) ==
  [k \in 1..Len(rows) |->
     [i |-> rows[k].i, Date |-> ShortLabel(rows[k].Date),
      Yield |-> rows[k].Yield, t |-> rows[k].t]]

\* normalize_day(group): the value every row of the group is rebased by
DayBase(group) ==
  LET At6PM(r) == HourOf(r.t) = OpenHour
      first_yield == SelectSeq(group, At6PM)
  IN  IF first_yield # <<>> THEN first_yield[1].Yield ELSE group[1].Yield

\* melt_df.groupby("Date", group_keys=False).apply(normalize_day)
NormalizeDays(rows) ==
  [k \in 1..Len(rows) |->
     LET SameDate(r) == r.Date = rows[k].Date
         group == SelectSeq(rows, SameDate)
     IN  [i |-> rows[k].i, Date |-> rows[k].Date, t |-> rows[k].t,
          Yield |-> Sub(rows[k].Yield, DayBase(group))]]

\* the pattern given to str.contains
AvgPattern == <<"A", "v", "g">>

\* melt_df["Date"].str.lower().str.contains("Avg")
IsAvgRow(r) == Contains(ToLower(r.Date), AvgPattern)

SelectAvg(rows) == SelectSeq(rows, IsAvgRow)

SelectNonAvg(rows) ==
  LET NotAvg(r) == ~IsAvgRow(r)
  IN  SelectSeq(rows, NotAvg)

(***************************************************************************)
(* Specification of the spreadsheet page: one sheet in, two series out     *)
(***************************************************************************)
\* most rows of the sheet
MaxTimes == 2

Clock(h, m, mer) == [clock |-> TRUE, h |-> h, m |-> m, mer |-> mer]
NoClock == [clock |-> FALSE, h |-> 0, m |-> 0, mer |-> ""]

TimeCells ==
  { Clock(6, 0, "PM"), Clock(6, 30, "PM"), Clock(9, 0, "AM"),
    Clock(4, 30, "PM"), Clock(13, 0, "PM"), NoClock }

LabelAvg     == <<"A", "v", "g">>
LabelAverage == <<"A", "v", "e", "r", "a", "g", "e">>
LabelSlash   == <<"9", "/", "1", "8">>
LabelStamp   == <<"2", "0", "2", "5", "-", "0", "9", "-", "1", "8", " ",
                  "0", "0", ":", "0", "0", ":", "0", "0">>

Labels == {LabelAvg, LabelAverage, LabelSlash, LabelStamp}

\* one or two columns beside the time column, of different names
ColumnLists ==
  {<<a>> : a \in Labels}
    \cup {<<p[1], p[2]>> : p \in {q \in Labels \X Labels : q[1] # q[2]}}

\* the cells of the sheet: all different, or the first row empty
CellValues(nc, n) ==
  { [c \in 1..nc |-> [r \in 1..n |-> Num(10 * c + r)]],
    [c \in 1..nc |-> [r \in 1..n |-> IF r = 1 THEN NaN ELSE Num(c + r)]] }

\* a sheet with a "Time/Day" column, or a one-row sheet without one
InitSheet ==
  /\ pc = "sheet"
  /\ \E timeName \in {TimeDay, ColTime} :
       \E n \in 1..(IF timeName = TimeDay THEN MaxTimes ELSE 1) :
         \E times \in [1..n -> TimeCells], columns \in ColumnLists :
           \E values \in CellValues(Len(columns), n) :
             sheet = [timeName |-> timeName, times |-> times,
                      columns |-> columns, values |-> values]
  /\ melt_df = <<>> /\ Avg_df = <<>> /\ non_Avg_df = <<>>
  /\ x = Unused /\ price = Unused
  /\ raw = Unused /\ df_proc = Unused /\ avg_proc = Unused
  /\ files = Unused /\ chartRaises = Unused /\ tabs = Unused

\* the try block: the sheet without a "Time/Day" column raises, any other
\* is melted, cut to the window, sorted, rebased and split into two series
PlotChart ==
  /\ pc = "sheet"
  /\ IF sheet.timeName # TimeDay
     THEN /\ pc' = "failed"
          /\ UNCHANGED <<melt_df, Avg_df, non_Avg_df>>
     ELSE \E sorted \in SortOrders(Windowed(Melt(sheet))) :
            /\ melt_df' = NormalizeDays(Shortened(sorted))
            /\ Avg_df' = SelectAvg(melt_df')
            /\ non_Avg_df' = SelectNonAvg(melt_df')
            /\ pc' = "plotted"
  /\ UNCHANGED <<x, price, raw, df_proc, avg_proc, files, chartRaises, tabs, sheet>>

NextSheet == PlotChart

SpecSheet == InitSheet /\ [][NextSheet]_vars

(***************************************************************************)
(* Specification of the two rebasing rules side by side                    *)
(***************************************************************************)
InitAnchor == InitContract \/ InitSheet

NextAnchor == ProcessContract \/ PlotChart

SpecAnchor == InitAnchor /\ [][NextAnchor]_vars


(***************************************************************************)
(* Claims about the spreadsheet page (SpecSheet)                           *)
(***************************************************************************)
\* the label of the average column: "avg" or "average" in any letter case
IsAverageLabel(d) == ToLower(d) \in {<<"a", "v", "g">>, <<"a", "v", "e", "r", "a", "g", "e">>}

\* the sheet has an average column with a row that reaches the chart
HasAverageData ==
  \E r \in Rows(melt_df) : IsAverageLabel(r.Date)

\* C9: every row of the average column is in Avg_df and not in non_Avg_df,
\* every row of a trading-day column is in non_Avg_df and not in Avg_df, and
\* Avg_df is not empty when the sheet has an average column with data.
C9_AverageSeries ==
  pc = "plotted" =>
    /\ \A r \in Rows(melt_df) :
         IF IsAverageLabel(r.Date)
         THEN r \in Rows(Avg_df) /\ r \notin Rows(non_Avg_df)
         ELSE r \in Rows(non_Avg_df) /\ r \notin Rows(Avg_df)
    /\ HasAverageData => Avg_df # <<>>

(***************************************************************************)
(* Claim about the two rebasing rules (SpecAnchor)                         *)
(***************************************************************************)
\* the first row of the group of label d, in the order the group-by sees
FirstOfDate(rows, d) ==
  rows[CHOOSE k \in 1..Len(rows) :
         /\ rows[k].Date = d
         /\ \A j \in 1..Len(rows) : rows[j].Date = d => k <= j]

\* the value of the sheet's cell that became the row of index label i
CellOf(i) ==
  sheet.values[((i - 1) \div Len(sheet.times)) + 1][((i - 1) % Len(sheet.times)) + 1]

\* C10: in both pipelines every row is rebased by the value of the first row
\* of its group, in the sorted order in which the rows reach the group-by:
\* the lookup of the row at the open never selects another row.
C10_AnchorIsFirstRow ==
  /\ pc = "returned" =>
       \A r \in Rows(df_proc) :
         r.Yield = r.Price - FirstRow(df_proc, r.SessionDate).Price
  /\ pc = "plotted" =>
       \A r \in Rows(melt_df) :
         r.Yield = Sub(CellOf(r.i), CellOf(FirstOfDate(melt_df, r.Date).i))

\* a CSV table whose open row comes last in the file, and a sheet whose 6 PM
\* row comes last, both rebased by that row
C10_WitnessCsv ==
  /\ pc = "returned"
  /\ Len(raw.rows) = 2
  /\ raw.rows[1].cells = <<Date(1, 9, 0, 0), T100_04>>
  /\ raw.rows[2].cells = <<Date(0, 18, 0, 0), T100_00>>
  /\ df_proc[1].i = 2 /\ df_proc[1].Yield = 0
  /\ df_proc[2].i = 1 /\ df_proc[2].Yield = 4

C10_WitnessSheet ==
  /\ pc = "plotted"
  /\ sheet.times = <<Clock(9, 0, "AM"), Clock(6, 0, "PM")>>
  /\ sheet.columns = <<LabelSlash>>
  /\ Len(melt_df) = 2
  /\ melt_df[1].i = 2 /\ melt_df[1].Yield = Num(0)
  /\ melt_df[2].i = 1 /\ melt_df[2].Yield = Num(0 - 1)

====
